---- MODULE Spec2Model ----
(***************************************************************************)
(* PNG prompt extractor: the PNG text-chunk reader (pngTextChunks.ts) and  *)
(* the positive-prompt heuristic (extractPositivePrompt.ts).               *)
(*                                                                         *)
(* A JavaScript string is a sequence of characters.  A character is a TLA+ *)
(* string: the structural characters are written as themselves ("{", ":"), *)
(* the ones that need escaping by name ("QT" the double quote, "BS" the    *)
(* backslash, "CR", "LF"), and a run of plain letters that no operation of *)
(* the program looks into is one element whose length is that of the run   *)
(* ("cat" counts 3, "W201" stands for 201 letters).  No string of the      *)
(* model has a backslash directly before a run of letters.                 *)
(***************************************************************************)
EXTENDS Integers, Sequences, FiniteSets, TLC

VARIABLES
    \* extractPositivePromptFromTextBlobs
    textBlobs,   \* its argument
    pc,          \* the phase being run: "A", "B", "C", then "done"
    idx,         \* the position of the phase's loop in textBlobs
    result,      \* the returned object
    \* normalizePrompt
    normInput,   \* its argument
    normStr,     \* the string after the calls made so far
    normPc,      \* the number of calls of the chain made so far
    \* extractFromMetadataObject
    metaArg,     \* its argument (meta)
    metaPc,      \* the step being tried: 1, 2, 3, then 0 once returned
    metaKey,     \* the position of step 3's loop in its key list
    metaResult,  \* the returned value
    metaBy,      \* the step that returned (0: the final return null)
    \* extractFromRawWorkflow
    wfArg,       \* its argument (rawWorkflowString)
    wfPc,        \* "parse", "loop", then "done"
    wfValue,     \* the parsed value (wf)
    wfKey,       \* the position of the loop in Object.keys(wf)
    wfCandidates, \* the candidates pushed so far
    wfResult,    \* the returned value
    \* extractPngTextChunks
    fileBytes,   \* the file's bytes (bytes)
    pngPc,       \* "start", "loop", then "returned" or "threw"
    readOffset,  \* the read position (offset; 0-based, as in the source)
    pngChunks    \* the chunks pushed so far

mainVars == <<textBlobs, pc, idx, result>>
normVars == <<normInput, normStr, normPc>>
metaVars == <<metaArg, metaPc, metaKey, metaResult, metaBy>>
wfVars == <<wfArg, wfPc, wfValue, wfKey, wfCandidates, wfResult>>
pngVars == <<fileBytes, pngPc, readOffset, pngChunks>>

vars == <<mainVars, normVars, metaVars, wfVars, pngVars>>

\* a function that is not being run
MainIdle == textBlobs = <<>> /\ pc = "idle" /\ idx = 0 /\ result = <<>>
NormIdle == normInput = <<>> /\ normStr = <<>> /\ normPc = -1
MetaIdle ==
    metaArg = <<>> /\ metaPc = -1 /\ metaKey = 0 /\ metaResult = <<>> /\ metaBy = -1
WfIdle ==
    /\ wfArg = <<>> /\ wfPc = "idle" /\ wfValue = <<>> /\ wfKey = 0
    /\ wfCandidates = <<>> /\ wfResult = <<>>
PngIdle == fileBytes = <<>> /\ pngPc = "idle" /\ readOffset = 0 /\ pngChunks = <<>>

-----------------------------------------------------------------------------
(* Characters and strings *)

\* String.prototype.trim and JSON.parse agree on these; no other white
\* space is in the alphabet.  "SP200" is a run of 200 spaces.
WhiteSpace == {" ", "LF", "CR", "SP200", "LF101"}

DigitChars == <<"0", "1", "2", "3", "4", "5", "6", "7", "8", "9">>

IsDigit(c) == \E k \in 1..10 : DigitChars[k] = c

DigitValue(c) == (CHOOSE k \in 1..10 : DigitChars[k] = c) - 1

\* The number of UTF-16 units an element stands for.
CharLen(c) ==
    CASE c = "cat" -> 3
      [] c = "dog" -> 3
      [] c = "doggy" -> 5
      [] c = "SP200" -> 200
      [] c = "LF101" -> 101
      [] c = "ESCLF101" -> 202
      [] c = "W50" -> 50
      [] c = "W51" -> 51
      [] c = "W200" -> 200
      [] c = "W201" -> 201
      [] c = "W300" -> 300
      [] c = "prompt" -> 6
      [] c = "Prompt" -> 6
      [] c = "positive" -> 8
      [] c = "Positive" -> 8
      [] c = "POSITIVE" -> 8
      [] c = "positive_prompt" -> 15
      [] c = "Positive prompt" -> 15
      [] c = "negative" -> 8
      [] c = "raw_workflow" -> 12
      [] c = "inputs" -> 6
      [] c = "text" -> 4
      [] c = "class_type" -> 10
      [] c = "_meta" -> 5
      [] c = "title" -> 5
      [] c = "other" -> 5
      [] c = "true" -> 4
      [] c = "false" -> 5
      [] c = "null" -> 4
      [] c = "[object Object]" -> 15
      [] OTHER -> 1

RECURSIVE StrLength(_)
StrLength(s) == IF s = <<>> THEN 0 ELSE CharLen(Head(s)) + StrLength(Tail(s))

RECURSIVE TrimStart(_)
TrimStart(s) ==
    IF s # <<>> /\ Head(s) \in WhiteSpace THEN TrimStart(Tail(s)) ELSE s

RECURSIVE TrimEnd(_)
TrimEnd(s) ==
    IF s # <<>> /\ s[Len(s)] \in WhiteSpace
    THEN TrimEnd(SubSeq(s, 1, Len(s) - 1))
    ELSE s

Trim(s) == TrimEnd(TrimStart(s))

StartsWith(s, c) == s # <<>> /\ s[1] = c

EndsWith(s, c) == s # <<>> /\ s[Len(s)] = c

IsPrefixAt(s, i, pat) ==
    /\ i + Len(pat) - 1 <= Len(s)
    /\ \A k \in 1..Len(pat) : s[i + k - 1] = pat[k]

\* The matches inside one element.  "ESCLF101" is a run of 101 times the
\* two characters backslash and n: the pattern backslash-n matches each of
\* them, and replacing them by line feeds gives "LF101", a run of 101 line
\* feeds.  No other pattern of normalizePrompt matches inside a run; no
\* input puts backslash-r directly before "ESCLF101" or CR directly
\* before "LF101".
ReplaceInRun(c, pat, rep) ==
    IF c = "ESCLF101" /\ pat = <<"BS", "n">> /\ rep = <<"LF">>
    THEN <<"LF101">>
    ELSE <<c>>

\* String.prototype.replace with a global regular expression of literal
\* characters: leftmost matches, never overlapping, replaced in one pass.
RECURSIVE ReplaceAll(_, _, _)
ReplaceAll(s, pat, rep) ==
    IF s = <<>> THEN <<>>
    ELSE IF IsPrefixAt(s, 1, pat)
         THEN rep \o ReplaceAll(SubSeq(s, Len(pat) + 1, Len(s)), pat, rep)
         ELSE ReplaceInRun(Head(s), pat, rep) \o ReplaceAll(Tail(s), pat, rep)

\* /positive/i.test(s): only these runs of letters spell the word.
ContainsPositive(s) ==
    \E k \in 1..Len(s) :
        s[k] \in {"positive", "Positive", "POSITIVE", "positive_prompt",
                  "Positive prompt"}

-----------------------------------------------------------------------------
(* JavaScript values, as JSON.parse builds them *)

Val(t, s, keys, vals) == [t |-> t, s |-> s, keys |-> keys, vals |-> vals]

NullV == Val("null", <<>>, <<>>, <<>>)
UndefV == Val("undefined", <<>>, <<>>, <<>>)
StrV(s) == Val("string", s, <<>>, <<>>)
NumV(d) == Val("number", d, <<>>, <<>>)
BoolV(b) == Val("boolean", <<b>>, <<>>, <<>>)
ArrV(items) == Val("array", <<>>, <<>>, items)
ObjV(keys, vals) == Val("object", <<>>, keys, vals)

\* typeof
TypeOf(v) ==
    CASE v.t \in {"null", "array", "object"} -> "object"
      [] OTHER -> v.t

\* ToBoolean
Truthy(v) ==
    CASE v.t \in {"null", "undefined"} -> FALSE
      [] v.t = "string" -> v.s # <<>>
      [] v.t = "number" -> v.s # <<"0">>
      [] v.t = "boolean" -> v.s = <<"true">>
      [] OTHER -> TRUE

RECURSIVE NumOfDigits(_)
NumOfDigits(k) ==
    IF k = <<>> THEN 0
    ELSE 10 * NumOfDigits(SubSeq(k, 1, Len(k) - 1)) + DigitValue(k[Len(k)])

RECURSIVE DigitsOfNum(_)
DigitsOfNum(n) ==
    IF n < 10 THEN <<DigitChars[n + 1]>>
    ELSE DigitsOfNum(n \div 10) \o <<DigitChars[(n % 10) + 1]>>

AllDigits(k) == k # <<>> /\ \A j \in 1..Len(k) : IsDigit(k[j])

\* An array index in the sense of OrdinaryOwnPropertyKeys: a canonical
\* decimal numeral.
IsIndexKey(k) == AllDigits(k) /\ (Len(k) = 1 \/ k[1] # "0")

RECURSIVE OtherKeyPositions(_, _, _)
\* the positions from i on, ascending, that are in ps and hold no array index
OtherKeyPositions(keys, ps, i) ==
    IF i > Len(keys) THEN <<>>
    ELSE (IF i \in ps /\ ~IsIndexKey(keys[i]) THEN <<i>> ELSE <<>>)
         \o OtherKeyPositions(keys, ps, i + 1)

RECURSIVE SortIndexKeys(_, _)
\* positions (a set) of index keys, ordered by ascending numeric value
SortIndexKeys(keys, ps) ==
    IF ps = {} THEN <<>>
    ELSE LET m == CHOOSE p \in ps :
                    \A q \in ps : NumOfDigits(keys[p]) <= NumOfDigits(keys[q])
         IN  <<m>> \o SortIndexKeys(keys, ps \ {m})

\* The object JSON.parse builds from members in source order: a repeated
\* key keeps its first position and its last value; own keys enumerate
\* with the array indices first, ascending, then the others in insertion
\* order.
MakeObject(keys, vals) ==
    LET n == Len(keys)
        first(i) == \A j \in 1..(i - 1) : keys[j] # keys[i]
        last(i) == CHOOSE j \in 1..n :
                     /\ keys[j] = keys[i]
                     /\ \A l \in (j + 1)..n : keys[l] # keys[i]
        firsts == { i \in 1..n : first(i) }
        idxPos == SortIndexKeys(keys, { i \in firsts : IsIndexKey(keys[i]) })
        order == idxPos \o OtherKeyPositions(keys, firsts, 1)
    IN  ObjV([i \in 1..Len(order) |-> keys[order[i]]],
             [i \in 1..Len(order) |-> vals[last(order[i])]])

\* Object.keys
ObjectKeys(v) ==
    CASE v.t = "object" -> v.keys
      [] v.t = "array" -> [i \in 1..Len(v.vals) |-> DigitsOfNum(i - 1)]
      [] OTHER -> <<>>

\* v[k] for a string key k: a property read never throws on the values
\* the program reads from (it guards null and undefined).
Get(v, k) ==
    CASE v.t = "object" ->
            IF \E i \in 1..Len(v.keys) : v.keys[i] = k
            THEN v.vals[CHOOSE i \in 1..Len(v.keys) : v.keys[i] = k]
            ELSE UndefV
      [] v.t = "array" ->
            IF IsIndexKey(k) /\ NumOfDigits(k) < Len(v.vals)
            THEN v.vals[NumOfDigits(k) + 1]
            ELSE UndefV
      [] OTHER -> UndefV

\* a ?? b
Coalesce(a, b) == IF a.t \in {"null", "undefined"} THEN b ELSE a

-----------------------------------------------------------------------------
(* JSON.parse *)

ParseFail == [ok |-> FALSE, v |-> NullV, i |-> 0]
ParseOk(v, i) == [ok |-> TRUE, v |-> v, i |-> i]

RECURSIVE SkipWs(_, _)
SkipWs(s, i) ==
    IF i <= Len(s) /\ s[i] \in WhiteSpace THEN SkipWs(s, i + 1) ELSE i

Unescape(c) ==
    CASE c = "n" -> "LF"
      [] c = "r" -> "CR"
      [] OTHER -> c

\* from the character after the opening quote
RECURSIVE ParseStringBody(_, _, _)
ParseStringBody(s, i, acc) ==
    IF i > Len(s) THEN ParseFail
    ELSE IF s[i] = "QT" THEN ParseOk(StrV(acc), i + 1)
    ELSE IF s[i] = "BS"
         THEN IF i + 1 <= Len(s) /\ s[i + 1] \in {"QT", "BS", "n", "r"}
              THEN ParseStringBody(s, i + 2, Append(acc, Unescape(s[i + 1])))
              ELSE ParseFail
    ELSE IF s[i] \in {"LF", "CR"} THEN ParseFail
    ELSE ParseStringBody(s, i + 1, Append(acc, s[i]))

RECURSIVE ParseDigits(_, _)
ParseDigits(s, i) ==
    IF i <= Len(s) /\ IsDigit(s[i]) THEN ParseDigits(s, i + 1) ELSE i

RECURSIVE ParseValue(_, _)
RECURSIVE ParseMembers(_, _, _, _)
RECURSIVE ParseElements(_, _, _)

ParseValue(s, i0) ==
    LET i == SkipWs(s, i0) IN
    IF i > Len(s) THEN ParseFail
    ELSE CASE s[i] = "{" ->
                LET j == SkipWs(s, i + 1) IN
                IF j <= Len(s) /\ s[j] = "}"
                THEN ParseOk(ObjV(<<>>, <<>>), j + 1)
                ELSE ParseMembers(s, j, <<>>, <<>>)
           [] s[i] = "[" ->
                LET j == SkipWs(s, i + 1) IN
                IF j <= Len(s) /\ s[j] = "]"
                THEN ParseOk(ArrV(<<>>), j + 1)
                ELSE ParseElements(s, j, <<>>)
           [] s[i] = "QT" -> ParseStringBody(s, i + 1, <<>>)
           [] IsDigit(s[i]) ->
                LET j == ParseDigits(s, i) IN
                IF s[i] = "0" /\ j > i + 1 THEN ParseFail
                ELSE ParseOk(NumV(SubSeq(s, i, j - 1)), j)
           [] s[i] \in {"true", "false"} -> ParseOk(BoolV(s[i]), i + 1)
           [] s[i] = "null" -> ParseOk(NullV, i + 1)
           [] OTHER -> ParseFail

\* from the first character of a member
ParseMembers(s, i, keys, vals) ==
    IF ~(i <= Len(s) /\ s[i] = "QT") THEN ParseFail
    ELSE LET k == ParseStringBody(s, i + 1, <<>>) IN
         IF ~k.ok THEN ParseFail
         ELSE LET c == SkipWs(s, k.i) IN
              IF ~(c <= Len(s) /\ s[c] = ":") THEN ParseFail
              ELSE LET v == ParseValue(s, c + 1) IN
                   IF ~v.ok THEN ParseFail
                   ELSE LET m == SkipWs(s, v.i)
                            ks == Append(keys, k.v.s)
                            vs == Append(vals, v.v)
                        IN  IF m > Len(s) THEN ParseFail
                            ELSE IF s[m] = "}"
                                 THEN ParseOk(MakeObject(ks, vs), m + 1)
                            ELSE IF s[m] = ","
                                 THEN ParseMembers(s, SkipWs(s, m + 1), ks, vs)
                            ELSE ParseFail

\* from the first character of an element
ParseElements(s, i, items) ==
    LET v == ParseValue(s, i) IN
    IF ~v.ok THEN ParseFail
    ELSE LET m == SkipWs(s, v.i)
             its == Append(items, v.v)
         IN  IF m > Len(s) THEN ParseFail
             ELSE IF s[m] = "]" THEN ParseOk(ArrV(its), m + 1)
             ELSE IF s[m] = "," THEN ParseElements(s, m + 1, its)
             ELSE ParseFail

\* the whole text must be one value; a SyntaxError is caught and gives null
WholeValueOrNull(s, r) ==
    IF r.ok /\ SkipWs(s, r.i) > Len(s) THEN r.v ELSE NullV

safeJsonParse(s) == WholeValueOrNull(s, ParseValue(s, 1))

-----------------------------------------------------------------------------
(* extractPositivePrompt.ts *)

RECURSIVE JoinStrings(_)
RECURSIVE ToStringV(_)
\* String(v)
ToStringV(v) ==
    CASE v.t \in {"string", "number", "boolean"} -> v.s
      [] v.t = "null" -> <<"null">>
      [] v.t = "undefined" -> <<"undefined">>
      [] v.t = "array" ->
            JoinStrings([i \in 1..Len(v.vals) |->
                IF v.vals[i].t \in {"null", "undefined"} THEN <<>>
                ELSE ToStringV(v.vals[i])])
      [] OTHER -> <<"[object Object]">>

\* Array.prototype.join with the default separator
JoinStrings(ss) ==
    IF Len(ss) = 0 THEN <<>>
    ELSE IF Len(ss) = 1 THEN ss[1]
    ELSE ss[1] \o <<",">> \o JoinStrings(Tail(ss))

normalizePrompt(s) ==
    Trim(ReplaceAll(ReplaceAll(ReplaceAll(s,
            <<"BS", "r", "BS", "n">>, <<"LF">>),
            <<"BS", "n">>, <<"LF">>),
            <<"CR", "LF">>, <<"LF">>))

\* isPromptWrapperJson from "const obj" on
IsWrapperObject(obj) ==
    IF ~Truthy(obj) \/ TypeOf(obj) # "object" \/ obj.t = "array" THEN FALSE
    ELSE IF Len(ObjectKeys(obj)) # 1 THEN FALSE
    ELSE IF ObjectKeys(obj)[1] # <<"prompt">> THEN FALSE
    ELSE TypeOf(Get(obj, <<"prompt">>)) = "string"

\* isPromptWrapperJson after "const t"
IsWrapperTrimmed(t) ==
    IF ~(StartsWith(t, "{") /\ EndsWith(t, "}")) THEN FALSE
    ELSE IsWrapperObject(safeJsonParse(t))

isPromptWrapperJson(s) == IsWrapperTrimmed(Trim(s))

\* InsertByLengthDesc as an unstable sort would place x: before the
\* elements of its own length
RECURSIVE InsertByLengthDesc_Unstable(_, _)
InsertByLengthDesc_Unstable(sorted, x) ==
    IF sorted = <<>> THEN <<x>>
    ELSE IF StrLength(Head(sorted)) > StrLength(x)
         THEN <<Head(sorted)>> \o InsertByLengthDesc_Unstable(Tail(sorted), x)
         ELSE <<x>> \o sorted

\* one step of a stable sort by (a, b) => b.length - a.length: x goes
\* behind every element that is not shorter
RECURSIVE InsertByLengthDesc(_, _)
InsertByLengthDesc(sorted, x) ==
    IF sorted = <<>> THEN <<x>>
    ELSE IF StrLength(Head(sorted)) >= StrLength(x)
         THEN <<Head(sorted)>> \o InsertByLengthDesc(Tail(sorted), x)
         ELSE <<x>> \o sorted

RECURSIVE SortByLengthDesc(_, _)
SortByLengthDesc(sorted, rest) ==
    IF rest = <<>> THEN sorted
    ELSE SortByLengthDesc(InsertByLengthDesc(sorted, Head(rest)), Tail(rest))

\* pickBestString from "if (cleaned.length === 0)" on
SortedFirstOrNull(cleaned) ==
    IF Len(cleaned) = 0 THEN NullV
    ELSE StrV(SortByLengthDesc(<<>>, cleaned)[1])

pickBestString(candidates) ==
    LET trimmed == [i \in 1..Len(candidates) |-> Trim(candidates[i])]
        nonEmpty(c) == c # <<>>
        notWrapper(c) == ~isPromptWrapperJson(c)
        cleaned == SelectSeq(SelectSeq(trimmed, nonEmpty), notWrapper)
    IN  SortedFirstOrNull(cleaned)

\* typeof v === "string" && v.trim().length > 0
IsNonEmptyString(v) == TypeOf(v) = "string" /\ StrLength(Trim(v.s)) > 0

\* the body of extractFromRawWorkflow's loop: what one node pushes
NodeCandidates(node) ==
    IF ~Truthy(node) \/ TypeOf(node) # "object" THEN <<>>
    ELSE LET classType == ToStringV(Coalesce(Get(node, <<"class_type">>), StrV(<<>>)))
             meta == Get(node, <<"_meta">>)
             metaTitle == IF meta.t \in {"null", "undefined"} THEN UndefV
                          ELSE Get(meta, <<"title">>)
             title == ToStringV(Coalesce(metaTitle, StrV(<<>>)))
             inputs == Coalesce(Get(node, <<"inputs">>), ObjV(<<>>, <<>>))
             positive == Get(inputs, <<"positive">>)
             text == Get(inputs, <<"text">>)
             prompt == Get(inputs, <<"prompt">>)
             looksPositive == \/ ContainsPositive(classType)
                              \/ ContainsPositive(title)
                              \/ title = <<"Positive">>
         IN  (IF IsNonEmptyString(positive) THEN <<positive.s>> ELSE <<>>)
             \o (IF looksPositive /\ IsNonEmptyString(text)
                 THEN <<text.s>> ELSE <<>>)
             \o (IF looksPositive /\ IsNonEmptyString(prompt)
                 THEN <<prompt.s>> ELSE <<>>)

RECURSIVE CollectCandidates(_, _, _)
\* extractFromRawWorkflow's loop over Object.keys(wf), from key i on
CollectCandidates(wf, keys, i) ==
    IF i > Len(keys) THEN <<>>
    ELSE NodeCandidates(Get(wf, keys[i])) \o CollectCandidates(wf, keys, i + 1)

\* best ? normalizePrompt(best) : null
NormalizedOrNull(best) ==
    IF Truthy(best) THEN StrV(normalizePrompt(best.s)) ELSE NullV

\* extractFromRawWorkflow after "const wf"
ExtractFromGraph(wf) ==
    IF ~Truthy(wf) \/ TypeOf(wf) # "object" THEN NullV
    ELSE NormalizedOrNull(
            pickBestString(CollectCandidates(wf, ObjectKeys(wf), 1)))

extractFromRawWorkflow(rawWorkflowString) ==
    ExtractFromGraph(safeJsonParse(rawWorkflowString))

MetaKeys == <<"positive", "positive_prompt", "Prompt", "Positive prompt">>

\* "if (p) return p": the value returned, or undefined to go on
TruthyOrUndef(p) == IF Truthy(p) THEN p ELSE UndefV

\* the first of two steps that returns
FirstReturn(a, b) == IF a # UndefV THEN a ELSE b

\* step 1 of extractFromMetadataObject: the value it returns, or undefined
MetaStep1(meta) ==
    LET rw == Get(meta, <<"raw_workflow">>) IN
    IF TypeOf(rw) = "string"
    THEN TruthyOrUndef(extractFromRawWorkflow(rw.s))
    ELSE UndefV

\* MetaStep2 with the length test written >= 50
MetaStep2_AtLeast50(meta) ==
    LET pr == Get(meta, <<"prompt">>) IN
    IF /\ IsNonEmptyString(pr)
       /\ StrLength(Trim(pr.s)) >= 50
       /\ ~isPromptWrapperJson(pr.s)
    THEN StrV(normalizePrompt(pr.s))
    ELSE UndefV

\* step 2
MetaStep2(meta) ==
    LET pr == Get(meta, <<"prompt">>) IN
    IF /\ IsNonEmptyString(pr)
       /\ StrLength(Trim(pr.s)) > 50
       /\ ~isPromptWrapperJson(pr.s)
    THEN StrV(normalizePrompt(pr.s))
    ELSE UndefV

\* step 3, for the k-th key of the list
MetaStep3(meta, k) ==
    LET v == Get(meta, <<MetaKeys[k]>>) IN
    IF IsNonEmptyString(v) /\ ~isPromptWrapperJson(v.s)
    THEN StrV(normalizePrompt(v.s))
    ELSE UndefV

RECURSIVE MetaStep3From(_, _)
MetaStep3From(meta, k) ==
    IF k > Len(MetaKeys) THEN NullV
    ELSE FirstReturn(MetaStep3(meta, k), MetaStep3From(meta, k + 1))

extractFromMetadataObject(meta) ==
    FirstReturn(MetaStep1(meta),
                FirstReturn(MetaStep2(meta), MetaStep3From(meta, 1)))

\* one iteration of phase A: p, or null when the blob is skipped
PhaseAOn(maybe) ==
    IF Truthy(maybe) /\ TypeOf(maybe) = "object"
    THEN extractFromMetadataObject(maybe)
    ELSE NullV

PhaseATry(blob) == PhaseAOn(safeJsonParse(blob))

\* /^\d+$/.test(k)
IsNumericKey(k) == AllDigits(k)

\* one iteration of phase B
\* PhaseBOn with keys.every in place of keys.some
PhaseBOn_EveryKey(maybe, blob) ==
    IF /\ Truthy(maybe) /\ TypeOf(maybe) = "object"
       /\ \A i \in 1..Len(ObjectKeys(maybe)) : IsNumericKey(ObjectKeys(maybe)[i])
    THEN extractFromRawWorkflow(blob)
    ELSE NullV

PhaseBOn(maybe, blob) ==
    IF /\ Truthy(maybe) /\ TypeOf(maybe) = "object"
       /\ \E i \in 1..Len(ObjectKeys(maybe)) : IsNumericKey(ObjectKeys(maybe)[i])
    THEN extractFromRawWorkflow(blob)
    ELSE NullV

PhaseBTry(blob) == PhaseBOn(safeJsonParse(blob), blob)

\* phase C: best
PhaseCBest(blobs) ==
    LET trimmed == [i \in 1..Len(blobs) |-> Trim(blobs[i])]
        long(s) == StrLength(s) > 200
        notWrapper(s) == ~isPromptWrapperJson(s)
    IN  pickBestString(SelectSeq(SelectSeq(trimmed, long), notWrapper))

-----------------------------------------------------------------------------
(* Inputs: the text of the blobs a PNG may carry *)

\* a JSON string literal with the content s, as JSON.stringify writes it
RECURSIVE Esc(_)
Esc(s) ==
    IF s = <<>> THEN <<>>
    ELSE (CASE Head(s) = "QT" -> <<"BS", "QT">>
            [] Head(s) = "BS" -> <<"BS", "BS">>
            [] Head(s) = "LF" -> <<"BS", "n">>
            [] Head(s) = "CR" -> <<"BS", "r">>
            [] OTHER -> <<Head(s)>>) \o Esc(Tail(s))

Q(s) == <<"QT">> \o Esc(s) \o <<"QT">>

Obj1(k, v) == <<"{">> \o Q(<<k>>) \o <<":">> \o v \o <<"}">>

Obj2(k1, v1, k2, v2) ==
    <<"{">> \o Q(<<k1>>) \o <<":">> \o v1 \o <<",">>
            \o Q(<<k2>>) \o <<":">> \o v2 \o <<"}">>

WrapperCat == Obj1("prompt", Q(<<"cat">>))

GraphCat == Obj1("1", Obj1("inputs", Obj1("positive", Q(<<"cat">>))))

GraphTitle ==
    Obj1("2", Obj2("_meta", Obj1("title", Q(<<"Positive">>)),
                   "inputs", Obj1("text", Q(<<"doggy">>))))

ArrayGraph == <<"[">> \o Obj1("inputs", Obj1("positive", Q(<<"doggy">>))) \o <<"]">>

BlobSet ==
    { <<"cat">>,
      <<"ESCLF101">>,
      <<"W201">>,
      <<"W200">>,
      <<" ", "W300", "LF">>,
      WrapperCat,
      Obj1("prompt", Q(<<"W51">>)),
      Obj1("prompt", Q(<<"W50">>)),
      Obj1("prompt", Q(<<"cat", "SP200">>)),
      <<"BS", "n">> \o Obj1("prompt", Q(<<"cat", "SP200">>)),
      Obj1("raw_workflow", Q(GraphTitle)),
      Obj1("raw_workflow", Q(ArrayGraph)),
      GraphCat,
      GraphTitle,
      Obj1("1", Obj2("class_type", Q(<<"negative">>),
                     "inputs", Obj1("text", Q(<<"W201">>)))),
      Obj1("1", Obj1("inputs", Obj1("positive", Q(<<"BS", "n">>)))),
      Obj1("1", Q(<<"cat">>)),
      Obj2("other", <<"1">>, "2", Obj1("inputs", Obj1("positive", Q(<<"cat">>)))),
      ArrayGraph,
      Obj1("positive", Q(<<"doggy">>)),
      Obj1("positive", Q(WrapperCat \o <<"BS", "n">>)),
      Obj2("positive", Q(WrapperCat), "Prompt", Q(<<"cat">>)),
      Q(<<"W201">>),
      <<"1">>,
      <<"null">> }

MaxBlobs == 2

-----------------------------------------------------------------------------
(* extractPositivePromptFromTextBlobs, one loop iteration at a time *)

NoResult == [prompt |-> UndefV, debugSource |-> "pending"]

Init ==
    /\ textBlobs \in UNION { [1..n -> BlobSet] : n \in 0..MaxBlobs }
    /\ pc = "A"
    /\ idx = 1
    /\ result = NoResult
    /\ NormIdle /\ MetaIdle /\ WfIdle /\ PngIdle

mainOthers == <<normVars, metaVars, wfVars, pngVars>>

Return(p, source) ==
    /\ result' = [prompt |-> p, debugSource |-> source]
    /\ pc' = "done"
    /\ UNCHANGED <<textBlobs, idx, mainOthers>>

\* "if (p) return { prompt: p, debugSource }", else the next blob
ReturnOrContinue(p, source) ==
    IF Truthy(p) THEN Return(p, source)
    ELSE idx' = idx + 1 /\ UNCHANGED <<textBlobs, pc, result, mainOthers>>

\* ReturnBestOrNone with the fallback's tag on the final return too
ReturnBestOrNone_TagAlways(best) ==
    IF Truthy(best)
    THEN Return(StrV(normalizePrompt(best.s)), "fallback-long-text")
    ELSE Return(NullV, "fallback-long-text")

\* phase C from "if (best)" on
ReturnBestOrNone(best) ==
    IF Truthy(best)
    THEN Return(StrV(normalizePrompt(best.s)), "fallback-long-text")
    ELSE Return(NullV, "undefined")

PhaseAStep ==
    /\ pc = "A"
    /\ idx <= Len(textBlobs)
    /\ ReturnOrContinue(PhaseATry(textBlobs[idx]), "metadata-json")

\* PhaseAEnd with phase A left after its first blob
PhaseAEnd_AfterFirstBlob ==
    /\ pc = "A"
    /\ idx > 1 \/ idx > Len(textBlobs)
    /\ pc' = "B"
    /\ idx' = 1
    /\ UNCHANGED <<textBlobs, result, mainOthers>>

PhaseAEnd ==
    /\ pc = "A"
    /\ idx > Len(textBlobs)
    /\ pc' = "B"
    /\ idx' = 1
    /\ UNCHANGED <<textBlobs, result, mainOthers>>

PhaseBStep ==
    /\ pc = "B"
    /\ idx <= Len(textBlobs)
    /\ ReturnOrContinue(PhaseBTry(textBlobs[idx]), "raw_workflow-json")

PhaseBEnd ==
    /\ pc = "B"
    /\ idx > Len(textBlobs)
    /\ pc' = "C"
    /\ idx' = 1
    /\ UNCHANGED <<textBlobs, result, mainOthers>>

PhaseC ==
    /\ pc = "C"
    /\ ReturnBestOrNone(PhaseCBest(textBlobs))

Next == PhaseAStep \/ PhaseAEnd \/ PhaseBStep \/ PhaseBEnd \/ PhaseC

Spec == Init /\ [][Next]_vars

-----------------------------------------------------------------------------
(* Properties of extractPositivePromptFromTextBlobs *)

Done == pc = "done"

Tagged == result.debugSource \in {"metadata-json", "raw_workflow-json",
                                  "fallback-long-text"}

\* some blob, at any position, yields a prompt in phase A (B)
AnyA == \E i \in 1..Len(textBlobs) : Truthy(PhaseATry(textBlobs[i]))
AnyB == \E i \in 1..Len(textBlobs) : Truthy(PhaseBTry(textBlobs[i]))

\* some blob is long enough for phase C and is no wrapper
AnyC ==
    \E i \in 1..Len(textBlobs) :
        /\ StrLength(Trim(textBlobs[i])) > 200
        /\ ~isPromptWrapperJson(textBlobs[i])

\* C1: whichever phase produced it, the prompt that
\* extractPositivePromptFromTextBlobs returns is never a wrapper-JSON string
\* (isPromptWrapperJson is false of it).
C1_NeverReturnsWrapper ==
    (Done /\ result.prompt.t = "string")
        => ~isPromptWrapperJson(result.prompt.s)

\* C2: in every result the source is none (no debugSource) if and only if
\* the prompt is null; a tagged result carries a string prompt.
C2_SourceNoneIffPromptNull ==
    Done =>
        /\ (result.debugSource = "undefined") <=> (result.prompt = NullV)
        /\ Tagged <=> (result.prompt.t = "string")
        /\ Tagged \/ result.debugSource = "undefined"

\* C2 witnesses: a run that ended with no prompt and no tag although it
\* had blobs to look at.
C2_Witness ==
    /\ Done
    /\ result.prompt = NullV
    /\ result.debugSource = "undefined"
    /\ Len(textBlobs) >= 2

\* C3: the phases run A, B, C and each tries every blob before the next
\* starts: phase B is entered only when no blob yields in A, phase C only
\* when none yields in A or B, and the phase that produces the result is
\* decided by which phases some blob (at any position) succeeds in, so it is
\* the same for every permutation of the blobs.
C3_PhaseOrder ==
    /\ pc = "B" => ~AnyA
    /\ pc = "C" => ~AnyA /\ ~AnyB
    /\ Done =>
        /\ (result.debugSource = "metadata-json") <=> AnyA
        /\ (result.debugSource = "raw_workflow-json") <=> (~AnyA /\ AnyB)
        /\ (result.debugSource = "fallback-long-text")
                <=> (~AnyA /\ ~AnyB /\ AnyC)

\* C3 witness: the result comes from phase A by the second blob although
\* the first blob would have succeeded in phase B.
C3_Witness ==
    /\ Done
    /\ result.debugSource = "metadata-json"
    /\ idx = 2
    /\ Truthy(PhaseBTry(textBlobs[1]))

\* a blob that parses as a JSON object with an all-digit top-level key and
\* whose workflow-graph extraction yields a prompt
IsYieldingGraphObject(blob) ==
    /\ safeJsonParse(blob).t = "object"
    /\ \E k \in 1..Len(safeJsonParse(blob).keys) :
            AllDigits(safeJsonParse(blob).keys[k])
    /\ Truthy(extractFromRawWorkflow(blob))

\* the same with "JSON object" read as phase B's test reads it: typeof
\* "object", which a JSON array passes too
IsYieldingGraphValue(blob) ==
    /\ safeJsonParse(blob).t \in {"object", "array"}
    /\ \E k \in 1..Len(ObjectKeys(safeJsonParse(blob))) :
            AllDigits(ObjectKeys(safeJsonParse(blob))[k])
    /\ Truthy(extractFromRawWorkflow(blob))

FirstIndex(P(_)) ==
    CHOOSE i \in 1..Len(textBlobs) :
        P(textBlobs[i]) /\ \A j \in 1..(i - 1) : ~P(textBlobs[j])

C11_TaggedPromptNonEmpty ==
    (Done /\ Tagged) => (result.prompt.t = "string" /\ result.prompt.s # <<>>)

\* C10: only JSON objects are metadata objects or workflow graphs: a blob
\* that yields the result in phase A or B parses to a JSON object (not an
\* array, string, number, boolean or null), a raw_workflow string that
\* yields it does too, and a node value that is no JSON object contributes
\* no candidate.
C10_OnlyJsonObjects ==
    (Done /\ result.debugSource \in {"metadata-json", "raw_workflow-json"})
        => /\ safeJsonParse(textBlobs[idx]).t = "object"
           /\ (MetaStep1(safeJsonParse(textBlobs[idx])) # UndefV
                 => safeJsonParse(
                        Get(safeJsonParse(textBlobs[idx]),
                            <<"raw_workflow">>).s).t = "object")
           /\ \A k \in 1..Len(safeJsonParse(textBlobs[idx]).vals) :
                 safeJsonParse(textBlobs[idx]).vals[k].t # "object"
                    => NodeCandidates(safeJsonParse(textBlobs[idx]).vals[k])
                            = <<>>

-----------------------------------------------------------------------------
(* normalizePrompt, one call of its chain at a time *)

NormChars == {"BS", "n", "r", "CR", "LF", "cat"}

MaxNormLen == 5

InitNormalize ==
    /\ normInput \in UNION { [1..n -> NormChars] : n \in 0..MaxNormLen }
    /\ normStr = normInput
    /\ normPc = 0
    /\ MainIdle /\ MetaIdle /\ WfIdle /\ PngIdle

normOthers == <<normInput, mainVars, metaVars, wfVars, pngVars>>

\* .replace(/\\r\\n/g, "\n")
ReplaceEscapedCrLf ==
    /\ normPc = 0
    /\ normStr' = ReplaceAll(normStr, <<"BS", "r", "BS", "n">>, <<"LF">>)
    /\ normPc' = 1
    /\ UNCHANGED normOthers

\* .replace(/\\n/g, "\n")
ReplaceEscapedLf ==
    /\ normPc = 1
    /\ normStr' = ReplaceAll(normStr, <<"BS", "n">>, <<"LF">>)
    /\ normPc' = 2
    /\ UNCHANGED normOthers

\* .replace(/\r\n/g, "\n")
ReplaceCrLf ==
    /\ normPc = 2
    /\ normStr' = ReplaceAll(normStr, <<"CR", "LF">>, <<"LF">>)
    /\ normPc' = 3
    /\ UNCHANGED normOthers

\* .trim()
TrimResult ==
    /\ normPc = 3
    /\ normStr' = Trim(normStr)
    /\ normPc' = 4
    /\ UNCHANGED normOthers

NextNormalize ==
    ReplaceEscapedCrLf \/ ReplaceEscapedLf \/ ReplaceCrLf \/ TrimResult

SpecNormalize == InitNormalize /\ [][NextNormalize]_vars

Occurs(s, pat) == \E i \in 1..Len(s) : IsPrefixAt(s, i, pat)

\* C9: the output of normalizePrompt contains no literal backslash-r-
\* backslash-n, no literal backslash-n and no real carriage-return+linefeed
\* pair, has no leading or trailing white space, and normalizePrompt maps it
\* to itself.
C9_NormalizedAndIdempotent ==
    normPc = 4 =>
        /\ normStr = normalizePrompt(normInput)
        /\ ~Occurs(normStr, <<"BS", "r", "BS", "n">>)
        /\ ~Occurs(normStr, <<"BS", "n">>)
        /\ ~Occurs(normStr, <<"CR", "LF">>)
        /\ normStr = <<>> \/ (normStr[1] \notin WhiteSpace
                               /\ normStr[Len(normStr)] \notin WhiteSpace)
        /\ normalizePrompt(normStr) = normStr

-----------------------------------------------------------------------------
(* extractFromMetadataObject, one step at a time *)

\* the object with the fields names[i]: values[i] at the positions ps
ObjectOfFields(names, values, ps) ==
    ObjV([i \in 1..Len(ps) |-> <<names[ps[i]]>>],
         [i \in 1..Len(ps) |-> values[ps[i]]])

\* the metadata object with the given fields (a field whose value is
\* undefined is not there)
MetaObject(names, values) ==
    LET present(i) == values[i] # UndefV IN
    ObjectOfFields(names, values,
                   SelectSeq([i \in 1..Len(names) |-> i], present))

MetaFieldNames ==
    <<"raw_workflow", "prompt", "positive", "positive_prompt", "Prompt",
      "Positive prompt">>

RawWorkflowValues ==
    { UndefV, StrV(GraphTitle), StrV(<<"cat">>), NumV(<<"1">>),
      StrV(Obj1("1", Obj1("inputs", Obj1("positive", Q(<<"BS", "n">>))))) }

PromptValues ==
    { UndefV, StrV(<<"W51">>), StrV(<<"W50">>), StrV(<<" ", "W50", "LF">>),
      StrV(<<"W50", "BS", "n">>), StrV(Obj1("prompt", Q(<<"W51">>))),
      NumV(<<"1">>) }

PositiveValues ==
    { UndefV, StrV(<<"cat">>), StrV(<<" ">>), StrV(WrapperCat), NullV }

OtherKeyValues == { UndefV, StrV(<<"W201">>), StrV(<<>>) }

InitMetadata ==
    /\ \E rw \in RawWorkflowValues, pr \in PromptValues, po \in PositiveValues,
          pp \in OtherKeyValues, cp \in OtherKeyValues,
          sp \in { UndefV, StrV(<<"doggy">>) } :
            metaArg = MetaObject(MetaFieldNames, <<rw, pr, po, pp, cp, sp>>)
    /\ metaPc = 1
    /\ metaKey = 1
    /\ metaResult = UndefV
    /\ metaBy = -1
    /\ MainIdle /\ NormIdle /\ WfIdle /\ PngIdle

metaOthers == <<metaArg, mainVars, normVars, wfVars, pngVars>>

\* "return v" in step `by`, or on to `nextPc` and `nextKey` when the
\* step returns nothing
MetaReturnOrGoOn(v, by, nextPc, nextKey) ==
    IF v # UndefV
    THEN /\ metaResult' = v
         /\ metaBy' = by
         /\ metaPc' = 0
         /\ UNCHANGED <<metaKey, metaOthers>>
    ELSE /\ metaPc' = nextPc
         /\ metaKey' = nextKey
         /\ UNCHANGED <<metaResult, metaBy, metaOthers>>

MetaTryRawWorkflow ==
    /\ metaPc = 1
    /\ MetaReturnOrGoOn(MetaStep1(metaArg), 1, 2, metaKey)

MetaTryPrompt ==
    /\ metaPc = 2
    /\ MetaReturnOrGoOn(MetaStep2(metaArg), 2, 3, metaKey)

MetaTryKey ==
    /\ metaPc = 3
    /\ metaKey <= Len(MetaKeys)
    /\ MetaReturnOrGoOn(MetaStep3(metaArg, metaKey), 3, 3, metaKey + 1)

MetaReturnNull ==
    /\ metaPc = 3
    /\ metaKey > Len(MetaKeys)
    /\ metaResult' = NullV
    /\ metaBy' = 0
    /\ metaPc' = 0
    /\ UNCHANGED <<metaKey, metaOthers>>

NextMetadata ==
    MetaTryRawWorkflow \/ MetaTryPrompt \/ MetaTryKey \/ MetaReturnNull

SpecMetadata == InitMetadata /\ [][NextMetadata]_vars

\* what the claim's three steps look at
GraphPromptOf(m) ==
    IF Get(m, <<"raw_workflow">>).t = "string"
    THEN extractFromRawWorkflow(Get(m, <<"raw_workflow">>).s)
    ELSE NullV

PromptFieldQualifies(m) ==
    /\ Get(m, <<"prompt">>).t = "string"
    /\ StrLength(Trim(Get(m, <<"prompt">>).s)) > 50
    /\ ~isPromptWrapperJson(Get(m, <<"prompt">>).s)

\* the k-th key of the list holds a string that is not empty (once
\* trimmed, as the code and the spec's other rules read "non-empty") and
\* is no wrapper
KeyQualifies(m, k) ==
    /\ Get(m, <<MetaKeys[k]>>).t = "string"
    /\ Trim(Get(m, <<MetaKeys[k]>>).s) # <<>>
    /\ ~isPromptWrapperJson(Get(m, <<MetaKeys[k]>>).s)

\* C7: extractFromMetadataObject returns by strict priority: (1) the
\* workflow-graph prompt of a string raw_workflow that yields one; (2)
\* otherwise a string prompt field of trimmed length over 50 that is no
\* wrapper; (3) otherwise the first of positive, positive_prompt, Prompt,
\* Positive prompt that holds a non-empty non-wrapper string; otherwise
\* null.  A prompt field of trimmed length 50 or less is never returned by
\* step 2, and a qualifying prompt field wins over the step-3 keys.
C7_MetadataPriority ==
    metaPc = 0 =>
        /\ Truthy(GraphPromptOf(metaArg))
            => metaBy = 1 /\ metaResult = GraphPromptOf(metaArg)
        /\ (~Truthy(GraphPromptOf(metaArg)) /\ PromptFieldQualifies(metaArg))
            => /\ metaBy = 2
               /\ metaResult =
                    StrV(normalizePrompt(Get(metaArg, <<"prompt">>).s))
        /\ (~Truthy(GraphPromptOf(metaArg)) /\ ~PromptFieldQualifies(metaArg))
            => \/ /\ metaBy = 3
                  /\ KeyQualifies(metaArg, metaKey)
                  /\ \A j \in 1..(metaKey - 1) : ~KeyQualifies(metaArg, j)
                  /\ metaResult =
                        StrV(normalizePrompt(
                            Get(metaArg, <<MetaKeys[metaKey]>>).s))
               \/ /\ metaBy = 0
                  /\ \A j \in 1..Len(MetaKeys) : ~KeyQualifies(metaArg, j)
                  /\ metaResult = NullV
        /\ (/\ Get(metaArg, <<"prompt">>).t = "string"
            /\ StrLength(Trim(Get(metaArg, <<"prompt">>).s)) <= 50)
            => metaBy # 2
        /\ metaResult = extractFromMetadataObject(metaArg)

\* C7 witness: step 2 returned the prompt field although a step-3 key
\* qualifies, after a string raw_workflow that yields no prompt.
C7_Witness ==
    /\ metaPc = 0
    /\ metaBy = 2
    /\ Get(metaArg, <<"raw_workflow">>).t = "string"
    /\ \E k \in 1..Len(MetaKeys) : KeyQualifies(metaArg, k)

-----------------------------------------------------------------------------
(* extractFromRawWorkflow, one node at a time *)

InputsOf(v) == Obj1("inputs", v)

NodeTexts ==
    { InputsOf(Obj1("positive", Q(<<"cat">>))),
      InputsOf(Obj1("positive", Q(<<"dog">>))),
      InputsOf(Obj1("positive", Q(<<"doggy">>))),
      InputsOf(Obj1("positive", Q(<<" ">>))),
      InputsOf(Obj1("positive", Q(<<"cat", "SP200">>))),
      InputsOf(Obj1("positive", Q(Obj1("prompt", Q(<<"W51">>))))),
      InputsOf(Obj1("positive", Q(<<"BS", "n">>))),
      InputsOf(Obj1("positive", <<"1">>)),
      InputsOf(Obj2("text", Q(<<"W51">>), "prompt", Q(<<"W50">>))),
      InputsOf(Q(<<"W201">>)),
      Obj2("class_type", Q(<<"Positive">>),
           "inputs", Obj2("text", Q(<<"doggy">>), "prompt", Q(<<"cat">>))),
      Obj2("class_type", Q(<<"negative">>),
           "inputs", Obj2("text", Q(<<"W201">>), "prompt", Q(<<"W51">>))),
      Obj2("class_type", <<"1">>, "inputs", Obj1("text", Q(<<"W201">>))),
      Obj2("class_type", <<"[">> \o Q(<<"Positive">>) \o <<"]">>,
           "inputs", Obj1("text", Q(<<"W51">>))),
      Obj2("_meta", Obj1("title", Q(<<"POSITIVE">>)),
           "inputs", Obj1("text", Q(<<"dog">>))),
      Obj2("_meta", Q(<<"Positive">>), "inputs", Obj1("prompt", Q(<<"W51">>))),
      Q(<<"W201">>),
      <<"[">> \o Q(<<"W201">>) \o <<"]">>,
      <<"null">> }

\* node identifiers, in the order the file lists the nodes
NodeIds == <<"2", "1", "3", "0">>

RECURSIVE GraphMembers(_, _)
GraphMembers(nodes, i) ==
    IF i > Len(nodes) THEN <<>>
    ELSE (IF i > 1 THEN <<",">> ELSE <<>>)
         \o Q(<<NodeIds[i]>>) \o <<":">> \o nodes[i]
         \o GraphMembers(nodes, i + 1)

RECURSIVE ArrayElements(_, _)
ArrayElements(nodes, i) ==
    IF i > Len(nodes) THEN <<>>
    ELSE (IF i > 1 THEN <<",">> ELSE <<>>) \o nodes[i]
         \o ArrayElements(nodes, i + 1)

GraphText(nodes) == <<"{">> \o GraphMembers(nodes, 1) \o <<"}">>

ArrayText(nodes) == <<"[">> \o ArrayElements(nodes, 1) \o <<"]">>

MaxNodes == 2

InitWorkflow ==
    /\ \/ \E n \in 0..MaxNodes : \E nodes \in [1..n -> NodeTexts] :
            wfArg \in {GraphText(nodes), ArrayText(nodes)}
       \/ wfArg \in { <<"cat">>, Q(<<"W201">>), <<"1">>, <<"null">>, <<"{">> }
    /\ wfPc = "parse"
    /\ wfValue = UndefV
    /\ wfKey = 0
    /\ wfCandidates = <<>>
    /\ wfResult = UndefV
    /\ MainIdle /\ NormIdle /\ MetaIdle /\ PngIdle

wfOthers == <<wfArg, mainVars, normVars, metaVars, pngVars>>

\* "if (!wf || typeof wf !== "object") return null", else into the loop
WfReturnNullOrLoop(v) ==
    /\ wfValue' = v
    /\ IF ~Truthy(v) \/ TypeOf(v) # "object"
       THEN /\ wfResult' = NullV
            /\ wfPc' = "done"
            /\ UNCHANGED <<wfKey, wfCandidates>>
       ELSE /\ wfPc' = "loop"
            /\ wfKey' = 1
            /\ wfCandidates' = <<>>
            /\ UNCHANGED wfResult
    /\ UNCHANGED wfOthers

WfParse ==
    /\ wfPc = "parse"
    /\ WfReturnNullOrLoop(safeJsonParse(wfArg))

WfNode ==
    /\ wfPc = "loop"
    /\ wfKey <= Len(ObjectKeys(wfValue))
    /\ wfCandidates' = wfCandidates
            \o NodeCandidates(Get(wfValue, ObjectKeys(wfValue)[wfKey]))
    /\ wfKey' = wfKey + 1
    /\ UNCHANGED <<wfPc, wfValue, wfResult, wfOthers>>

WfReturnBest ==
    /\ wfPc = "loop"
    /\ wfKey > Len(ObjectKeys(wfValue))
    /\ wfResult' = NormalizedOrNull(pickBestString(wfCandidates))
    /\ wfPc' = "done"
    /\ UNCHANGED <<wfValue, wfKey, wfCandidates, wfOthers>>

NextWorkflow == WfParse \/ WfNode \/ WfReturnBest

SpecWorkflow == InitWorkflow /\ [][NextWorkflow]_vars

\* a string that is not empty once trimmed
IsFilledString(v) == v.t = "string" /\ Trim(v.s) # <<>>

\* the text of a field: nothing when the field is missing or null
TextOf(v) == IF v.t \in {"null", "undefined"} THEN <<>> ELSE ToStringV(v)

\* class_type or _meta.title, as text, contains "positive" in any case
NodeLooksPositive(node) ==
    \/ ContainsPositive(TextOf(Get(node, <<"class_type">>)))
    \/ ContainsPositive(TextOf(Get(Get(node, <<"_meta">>), <<"title">>)))

\* the candidates the claim names for one node: inputs.positive always,
\* inputs.text and inputs.prompt of a node that looks positive
ClaimedNodeCandidates(node) ==
    (IF IsFilledString(Get(Get(node, <<"inputs">>), <<"positive">>))
     THEN <<Get(Get(node, <<"inputs">>), <<"positive">>).s>> ELSE <<>>)
    \o (IF /\ NodeLooksPositive(node)
           /\ IsFilledString(Get(Get(node, <<"inputs">>), <<"text">>))
        THEN <<Get(Get(node, <<"inputs">>), <<"text">>).s>> ELSE <<>>)
    \o (IF /\ NodeLooksPositive(node)
           /\ IsFilledString(Get(Get(node, <<"inputs">>), <<"prompt">>))
        THEN <<Get(Get(node, <<"inputs">>), <<"prompt">>).s>> ELSE <<>>)

RECURSIVE ClaimedCandidates(_, _)
\* for the nodes of graph g from its i-th key on
ClaimedCandidates(g, i) ==
    IF i > Len(ObjectKeys(g)) THEN <<>>
    ELSE ClaimedNodeCandidates(Get(g, ObjectKeys(g)[i]))
         \o ClaimedCandidates(g, i + 1)

\* the candidates that remain: not empty, no wrapper JSON
Remains(c) == Trim(c) # <<>> /\ ~isPromptWrapperJson(c)

\* position i holds the best of the candidates cs: none that remains is
\* longer (trimmed), and none collected before it is as long
IsBestAt(cs, i) ==
    /\ Remains(cs[i])
    /\ \A j \in 1..Len(cs) :
          Remains(cs[j]) =>
              /\ StrLength(Trim(cs[j])) <= StrLength(Trim(cs[i]))
              /\ j < i => StrLength(Trim(cs[j])) < StrLength(Trim(cs[i]))

\* C8: extractFromRawWorkflow returns the normalized best string among
\* exactly these candidates: every non-empty inputs.positive string of any
\* node, and the non-empty inputs.text and inputs.prompt strings of the
\* nodes that look positive (never those of a node that does not); the best
\* is the candidate of greatest trimmed length after dropping empty and
\* wrapper-JSON entries, the first collected among equals, and the result is
\* null when no candidate remains.
C8_BestCandidate ==
    (wfPc = "done" /\ Truthy(wfValue) /\ TypeOf(wfValue) = "object") =>
        /\ wfCandidates = ClaimedCandidates(wfValue, 1)
        /\ IF \E i \in 1..Len(wfCandidates) : Remains(wfCandidates[i])
           THEN \E i \in 1..Len(wfCandidates) :
                    /\ IsBestAt(wfCandidates, i)
                    /\ wfResult =
                          StrV(normalizePrompt(Trim(wfCandidates[i])))
           ELSE wfResult = NullV
        /\ wfResult = extractFromRawWorkflow(wfArg)

\* C8 witness: two different candidates tie for the greatest trimmed
\* length and the one collected first was returned.
C8_Witness ==
    /\ wfPc = "done"
    /\ Len(wfCandidates) = 2
    /\ IsBestAt(wfCandidates, 1)
    /\ Remains(wfCandidates[2])
    /\ wfCandidates[1] # wfCandidates[2]
    /\ StrLength(Trim(wfCandidates[1])) = StrLength(Trim(wfCandidates[2]))
    /\ wfResult = StrV(normalizePrompt(Trim(wfCandidates[1])))

-----------------------------------------------------------------------------
(* pngTextChunks.ts: bytes, text and the decoders *)

\* A Uint8Array is a sequence of numbers in 0..255, read with 0-based
\* offsets as in the source.  A decoded string is the sequence of its
\* UTF-16 code units.

PNG_SIGNATURE == <<137, 80, 78, 71, 13, 10, 26, 10>>

\* the chunk type codes the loop compares with, as Latin-1 text
TypetEXt == <<116, 69, 88, 116>>
TypezTXt == <<122, 84, 88, 116>>
TypeiTXt == <<105, 84, 88, 116>>
TypeIEND == <<73, 69, 78, 68>>

\* reading a typed array past its end gives undefined
UndefinedByte == -1

\* DataView.getUint32 raises a RangeError when offset + 4 passes the end
RangeError == -2

\* bytes[i]
At(b, i) == IF i >= 0 /\ i < Len(b) THEN b[i + 1] ELSE UndefinedByte

\* bytes.slice(start, end): both ends are clamped to the length
Slice(b, start, end) ==
    SubSeq(b, (IF start > Len(b) THEN Len(b) ELSE start) + 1,
              IF end > Len(b) THEN Len(b) ELSE end)

\* A length of 2^30 or more is read as 2^30, to stay within TLC's
\* integers: like the true value, it passes the end of every buffer.
LongLength == 1073741824

\* view.getUint32(offset, false): big-endian
readU32BE(b, offset) ==
    IF offset + 4 > Len(b) THEN RangeError
    ELSE IF b[offset + 1] >= 64 THEN LongLength
    ELSE b[offset + 1] * 16777216 + b[offset + 2] * 65536
         + b[offset + 3] * 256 + b[offset + 4]

bytesEqual(a, b) ==
    /\ Len(a) = Len(b)
    /\ \A i \in 1..Len(a) : a[i] = b[i]

\* the first index from start that holds 0, or -1
findNullByte(buf, start) ==
    IF \E i \in start..(Len(buf) - 1) : buf[i + 1] = 0
    THEN CHOOSE i \in start..(Len(buf) - 1) :
            /\ buf[i + 1] = 0
            /\ \A j \in start..(i - 1) : buf[j + 1] # 0
    ELSE -1

\* String.fromCharCode(byte) for each byte: the code unit is the byte
decodeLatin1(b) == [i \in 1..Len(b) |-> b[i]]

\* TextDecoder("utf-8", { fatal: false }): one-byte and two-byte forms;
\* a byte that starts no valid form becomes U+FFFD and decoding goes on
\* with the next byte.  The inputs hold no byte of 224 or more (three-
\* and four-byte forms, byte order mark).
RECURSIVE Utf8From(_, _)
Utf8From(b, i) ==
    IF i > Len(b) THEN <<>>
    ELSE IF b[i] < 128 THEN <<b[i]>> \o Utf8From(b, i + 1)
    ELSE IF /\ b[i] \in 194..223
            /\ i + 1 <= Len(b)
            /\ b[i + 1] \in 128..191
         THEN <<(b[i] - 192) * 64 + (b[i + 1] - 128)>> \o Utf8From(b, i + 2)
    ELSE <<65533>> \o Utf8From(b, i + 1)

decodeUTF8(b) == Utf8From(b, 1)

\* the outcome of a DecompressionStream: the bytes, or an exception
InflateError == [ok |-> FALSE, out |-> <<>>, next |-> 0]

InflateDone(out, next) == [ok |-> TRUE, out |-> out, next |-> next]

PrependBlock(data, rest) ==
    IF rest.ok THEN InflateDone(data \o rest.out, rest.next) ELSE InflateError

\* a raw DEFLATE stream read from index i: stored blocks (BTYPE 00) are
\* decoded, the reserved block type is an error; the inputs hold no
\* Huffman-coded block
RECURSIVE InflateBlocks(_, _)
InflateBlocks(b, i) ==
    IF i + 4 > Len(b) THEN InflateError
    ELSE IF (b[i] \div 2) % 4 # 0 THEN InflateError
    ELSE IF (b[i + 1] + 256 * b[i + 2]) + (b[i + 3] + 256 * b[i + 4]) # 65535
         THEN InflateError
    ELSE IF i + 4 + b[i + 1] + 256 * b[i + 2] > Len(b) THEN InflateError
    ELSE IF b[i] % 2 = 1
         THEN InflateDone(SubSeq(b, i + 5, i + 4 + b[i + 1] + 256 * b[i + 2]),
                          i + 5 + b[i + 1] + 256 * b[i + 2])
    ELSE PrependBlock(SubSeq(b, i + 5, i + 4 + b[i + 1] + 256 * b[i + 2]),
                      InflateBlocks(b, i + 5 + b[i + 1] + 256 * b[i + 2]))

\* the two sums of Adler-32
RECURSIVE AdlerA(_, _)
AdlerA(d, n) == IF n = 0 THEN 1 ELSE (AdlerA(d, n - 1) + d[n]) % 65521

RECURSIVE AdlerB(_, _)
AdlerB(d, n) == IF n = 0 THEN 0 ELSE (AdlerB(d, n - 1) + AdlerA(d, n)) % 65521

\* the checksum that ends a zlib stream, big-endian
AdlerBytes(d) ==
    << AdlerB(d, Len(d)) \div 256, AdlerB(d, Len(d)) % 256,
       AdlerA(d, Len(d)) \div 256, AdlerA(d, Len(d)) % 256 >>

\* "deflate-raw": the stream must end where the buffer ends
RawEndsAtEnd(b, r) == IF r.ok /\ r.next = Len(b) + 1 THEN r ELSE InflateError

\* "deflate": the raw stream is followed by its Adler-32 and nothing else
ZlibEndsAtEnd(b, r) ==
    IF /\ r.ok
       /\ r.next + 3 = Len(b)
       /\ SubSeq(b, r.next, r.next + 3) = AdlerBytes(r.out)
    THEN r
    ELSE InflateError

\* new DecompressionStream(format) piped over the whole buffer
tryStream(format, b) ==
    IF format = "deflate"
    THEN IF /\ Len(b) >= 2
            /\ b[1] % 16 = 8
            /\ b[1] \div 16 <= 7
            /\ (b[1] * 256 + b[2]) % 31 = 0
            /\ (b[2] \div 32) % 2 = 0
         THEN ZlibEndsAtEnd(b, InflateBlocks(b, 3))
         ELSE InflateError
    ELSE RawEndsAtEnd(b, InflateBlocks(b, 1))

\* "catch { return await tryStream("deflate-raw") }"
OrDeflateRaw(z, data) == IF z.ok THEN z ELSE tryStream("deflate-raw", data)

inflateZlib(data) == OrDeflateRaw(tryStream("deflate", data), data)

\* the parsers return a chunk or null
NullChunk == [type |-> "null", keyword |-> <<>>, text |-> <<>>]

TextChunk(type, keyword, text) ==
    [type |-> type, keyword |-> keyword, text |-> text]

\* "try { ... decodeUTF8(inflated) ... } catch { return null }"
InflatedChunk(type, keyword, inflated) ==
    IF inflated.ok
    THEN TextChunk(type, keyword, decodeUTF8(inflated.out))
    ELSE NullChunk

tEXtAt(data, n) ==
    IF n < 0 THEN NullChunk
    ELSE TextChunk("tEXt", decodeLatin1(Slice(data, 0, n)),
                   decodeLatin1(Slice(data, n + 1, Len(data))))

parse_tEXt(data) == tEXtAt(data, findNullByte(data, 0))

zTXtAt(data, n) ==
    IF n < 0 THEN NullChunk
    ELSE IF At(data, n + 1) # 0 THEN NullChunk
    ELSE InflatedChunk("zTXt", decodeLatin1(Slice(data, 0, n)),
                       inflateZlib(Slice(data, n + 2, Len(data))))

parse_zTXt(data) == zTXtAt(data, findNullByte(data, 0))

\* from "const payload = data.slice(offset)" on
iTXtPayload(data, keywordEnd, translatedEnd) ==
    IF translatedEnd < 0 THEN NullChunk
    ELSE IF At(data, keywordEnd + 1) = 1
         THEN IF At(data, keywordEnd + 2) # 0 THEN NullChunk
              ELSE InflatedChunk("iTXt", decodeLatin1(Slice(data, 0, keywordEnd)),
                       inflateZlib(Slice(data, translatedEnd + 1, Len(data))))
    ELSE TextChunk("iTXt", decodeLatin1(Slice(data, 0, keywordEnd)),
                   decodeUTF8(Slice(data, translatedEnd + 1, Len(data))))

iTXtLang(data, keywordEnd, langEnd) ==
    IF langEnd < 0 THEN NullChunk
    ELSE iTXtPayload(data, keywordEnd, findNullByte(data, langEnd + 1))

iTXtAt(data, keywordEnd) ==
    IF keywordEnd < 0 THEN NullChunk
    ELSE iTXtLang(data, keywordEnd, findNullByte(data, keywordEnd + 3))

parse_iTXt(data) == iTXtAt(data, findNullByte(data, 0))

\* the dispatch on the chunk type: the parsed chunk, or null for a type
\* that is not a text chunk
ParseByType(type, data) ==
    IF type = TypetEXt THEN parse_tEXt(data)
    ELSE IF type = TypezTXt THEN parse_zTXt(data)
    ELSE IF type = TypeiTXt THEN parse_iTXt(data)
    ELSE NullChunk

\* "if (parsed) chunks.push(parsed)"
PushIfParsed(chunks, parsed) ==
    IF parsed.type = "null" THEN chunks ELSE Append(chunks, parsed)

\* "while (offset + 8 <= bytes.length)"
LoopCondition_AnyByteLeft(offset, length) == offset < length

LoopCondition(offset, length) == offset + 8 <= length

\* "if (dataEnd > bytes.length || crcEnd > bytes.length) break"
Overruns_DataOnly(dataEnd, crcEnd, length) == dataEnd > length

Overruns(dataEnd, crcEnd, length) == dataEnd > length \/ crcEnd > length

-----------------------------------------------------------------------------
(* extractPngTextChunks: the files it is run on *)

\* a length under 256 as four big-endian bytes
LengthBytes(n) == <<0, 0, 0, n>>

\* a whole chunk: length, type, data and a CRC, which is never read
ChunkBytes(type, data) ==
    LengthBytes(Len(data)) \o type \o data \o <<0, 0, 0, 0>>

\* one final stored block holding data
RawStored(data) == <<1, Len(data), 0, 255 - Len(data), 255>> \o data

\* a zlib stream: header, one stored block, Adler-32
ZlibStored(data) == <<120, 1>> \o RawStored(data) \o AdlerBytes(data)

\* tEXt "a" = "h" and a Latin-1 e-acute
PiecetEXt == ChunkBytes(TypetEXt, <<97, 0, 104, 233>>)

\* tEXt without the separator
PiecetEXtNoNul == ChunkBytes(TypetEXt, <<98, 104>>)

\* zTXt "c", a zlib stream of "h" and a UTF-8 e-acute
PiecezTXt == ChunkBytes(TypezTXt, <<99, 0, 0>> \o ZlibStored(<<104, 195, 169>>))

\* zTXt "d", a raw DEFLATE stream without the zlib wrapper
PiecezTXtRaw == ChunkBytes(TypezTXt, <<100, 0, 0>> \o RawStored(<<104, 105>>))

\* zTXt "e", a stream that is neither zlib nor DEFLATE
PiecezTXtBad == ChunkBytes(TypezTXt, <<101, 0, 0, 7, 7>>)

\* zTXt "f" with compression method 1
PiecezTXtMethod ==
    ChunkBytes(TypezTXt, <<102, 0, 1>> \o ZlibStored(<<104, 105>>))

\* zTXt "g" that ends with the separator
PiecezTXtShort == ChunkBytes(TypezTXt, <<103, 0>>)

\* iTXt "h", not compressed, language "en", text with a UTF-8 e-acute and
\* an invalid byte
PieceiTXt ==
    ChunkBytes(TypeiTXt, <<104, 0, 0, 0, 101, 110, 0, 0, 195, 169, 200, 65>>)

\* iTXt "i", compressed
PieceiTXtCompressed ==
    ChunkBytes(TypeiTXt, <<105, 0, 1, 0, 0, 0>> \o ZlibStored(<<104, 105>>))

\* iTXt "j", compressed with method 1
PieceiTXtMethod ==
    ChunkBytes(TypeiTXt, <<106, 0, 1, 1, 0, 0>> \o ZlibStored(<<104, 105>>))

\* iTXt "k" without the separator after the language tag
PieceiTXtNoLang == ChunkBytes(TypeiTXt, <<107, 0, 0, 0, 101>>)

\* an image data chunk
PieceIDAT == ChunkBytes(<<73, 68, 65, 84>>, <<1, 2>>)

PieceIEND == ChunkBytes(TypeIEND, <<>>)

\* tEXt that declares 60 bytes of data and holds 4
PieceOverrun == LengthBytes(60) \o TypetEXt \o <<108, 0, 104, 105>>

\* tEXt that declares 2^24 bytes of data
PieceHuge == <<1, 0, 0, 0>> \o TypetEXt \o <<109, 0, 104, 105>>

\* tEXt whose data is whole and whose CRC is missing
PieceNoCrc == LengthBytes(4) \o TypetEXt \o <<110, 0, 104, 105>>

\* less than a chunk header
PieceTail == <<0, 0, 0>>

ChunkPieces ==
    { PiecetEXt, PiecetEXtNoNul, PiecezTXt, PiecezTXtRaw, PiecezTXtBad,
      PiecezTXtMethod, PiecezTXtShort, PieceiTXt, PieceiTXtCompressed,
      PieceiTXtMethod, PieceiTXtNoLang, PieceIDAT, PieceIEND, PieceOverrun,
      PieceHuge, PieceNoCrc, PieceTail }

\* what a file starts with: the signature, a signature with one wrong
\* byte, a cut signature, nothing
FilePrefixes ==
    { PNG_SIGNATURE, <<137, 80, 78, 71, 13, 10, 26, 11>>, <<137, 80, 78>>,
      <<>> }

MaxChunks == 3

RECURSIVE Concat(_, _)
Concat(ps, n) == IF n = 0 THEN <<>> ELSE Concat(ps, n - 1) \o ps[n]

-----------------------------------------------------------------------------
(* extractPngTextChunks, one loop iteration at a time *)

InitPng ==
    /\ MainIdle /\ NormIdle /\ MetaIdle /\ WfIdle
    /\ \E prefix \in FilePrefixes : \E n \in 0..MaxChunks :
         \E ps \in [1..n -> ChunkPieces] :
            /\ prefix = PNG_SIGNATURE \/ n <= 1
            /\ fileBytes = prefix \o Concat(ps, n)
    /\ pngPc = "start"
    /\ readOffset = 0
    /\ pngChunks = <<>>

pngOthers == <<fileBytes, mainVars, normVars, metaVars, wfVars>>

\* "if (bytes.length < 8 || !bytesEqual(bytes.slice(0, 8), PNG_SIGNATURE))
\* throw", else "offset = 8; chunks = []"
CheckSignature ==
    /\ pngPc = "start"
    /\ IF Len(fileBytes) < 8 \/ ~bytesEqual(Slice(fileBytes, 0, 8), PNG_SIGNATURE)
       THEN pngPc' = "threw" /\ readOffset' = readOffset
       ELSE pngPc' = "loop" /\ readOffset' = 8
    /\ pngChunks' = <<>>
    /\ UNCHANGED pngOthers

\* the loop body once the length has been read: break on an overrun,
\* parse and push a text chunk, break on IEND, else go to the next chunk
ChunkBody(length, type, dataEnd, crcEnd) ==
    IF Overruns(dataEnd, crcEnd, Len(fileBytes))
    THEN pngPc' = "returned" /\ UNCHANGED <<readOffset, pngChunks>>
    ELSE /\ pngChunks' =
              PushIfParsed(pngChunks,
                           ParseByType(type, Slice(fileBytes, dataEnd - length, dataEnd)))
         /\ IF type = TypeIEND
            THEN pngPc' = "returned" /\ readOffset' = readOffset
            ELSE pngPc' = "loop" /\ readOffset' = crcEnd

\* "const length = readU32BE(view, offset)", which may raise, and the rest
ChunkAt(length) ==
    IF length = RangeError
    THEN pngPc' = "threw" /\ UNCHANGED <<readOffset, pngChunks>>
    ELSE ChunkBody(length,
                   decodeLatin1(Slice(fileBytes, readOffset + 4, readOffset + 8)),
                   readOffset + 8 + length,
                   readOffset + 8 + length + 4)

\* one iteration of the while loop
ReadChunk ==
    /\ pngPc = "loop"
    /\ LoopCondition(readOffset, Len(fileBytes))
    /\ ChunkAt(readU32BE(fileBytes, readOffset))
    /\ UNCHANGED pngOthers

\* the loop condition fails: "return chunks"
ReturnChunks ==
    /\ pngPc = "loop"
    /\ ~LoopCondition(readOffset, Len(fileBytes))
    /\ pngPc' = "returned"
    /\ UNCHANGED <<readOffset, pngChunks>>
    /\ UNCHANGED pngOthers

NextPng == CheckSignature \/ ReadChunk \/ ReturnChunks

SpecPng == InitPng /\ [][NextPng]_vars

\* the buffer holds the eight signature bytes at its start
StartsWithSignature ==
    /\ Len(fileBytes) >= 8
    /\ \A i \in 1..8 : fileBytes[i] = PNG_SIGNATURE[i]

\* C5: the call of extractPngTextChunks ends by throwing exactly when the
\* buffer is shorter than 8 bytes or its first 8 bytes are not the PNG
\* signature; on a buffer that starts with the signature the call never
\* raises, whatever follows, and what ends it is the return of its list.
C5_ThrowsIffBadSignature ==
    /\ pngPc = "threw" => ~StartsWithSignature
    /\ pngPc \in {"loop", "returned"} => StartsWithSignature

\* C5 witness: the call returned on a file whose signature is followed by
\* a zTXt chunk that does not decompress and by a cut chunk header.
C5_Witness ==
    /\ pngPc = "returned"
    /\ fileBytes = PNG_SIGNATURE \o PiecezTXtBad \o PieceTail

\* the chunks the claim describes, from offset o on: none from the first
\* stop point, else the decoded text chunk, if any, and those that follow
RECURSIVE ChunksBeforeStop(_, _)
ChunksBeforeStop(b, o) ==
    IF o + 8 > Len(b) THEN <<>>
    ELSE IF \/ SubSeq(b, o + 5, o + 8) = TypeIEND
            \/ readU32BE(b, o) + 4 > Len(b) - (o + 8)
         THEN <<>>
    ELSE PushIfParsed(<<>>, ParseByType(SubSeq(b, o + 5, o + 8),
                                        SubSeq(b, o + 9, o + 8 + readU32BE(b, o))))
         \o ChunksBeforeStop(b, o + 12 + readU32BE(b, o))

\* C6: the list returned for a buffer with a valid signature is, in file
\* order, the text chunks that decode and that come before the first stop
\* point (an IEND chunk, or a chunk whose declared data and 4-byte trailer
\* pass the end of the buffer); other chunks are skipped.
C6_ChunksBeforeStopPoint ==
    pngPc = "returned" => pngChunks = ChunksBeforeStop(fileBytes, 8)

\* C6 witness: a text chunk that fails to decode was skipped, the next
\* one was returned, and the scan stopped at a tEXt chunk whose declared
\* data passes the end of the buffer.
C6_Witness ==
    /\ pngPc = "returned"
    /\ fileBytes = PNG_SIGNATURE \o PiecezTXtBad \o PiecezTXt \o PieceOverrun
    /\ Len(pngChunks) = 1
    /\ pngChunks[1].type = "zTXt"
    /\ pngChunks[1].text = <<104, 233>>

====
